---- MODULE Spec2Model ----
(***************************************************************************)
(* The glyph front-end parser (src/src/parser.rs) as a state machine.      *)
(*                                                                         *)
(* The parser is a pure function from a source text to a Document or an    *)
(* error.  Source texts are sequences of one-character strings; positions  *)
(* are 1-based indices of the next character to read.  Every grammar rule  *)
(* of parser() is an operator taking (s, i) and returning a result record  *)
(*   [st, pos, val, far, depth]                                            *)
(* st    "ok" | "err" | "panic" (unwrap of a failed f64 parse) | "loop"    *)
(*       (a repetition whose item succeeded without consuming input)       *)
(* pos   the cursor after the rule (the start position on failure)         *)
(* val   the output of the rule                                            *)
(* far   the furthest position at which any sub-rule failed so far: the    *)
(*       position of the error chumsky reports (0: none)                   *)
(* depth the deepest nesting of invocations of the element rule            *)
(***************************************************************************)
EXTENDS Integers, Sequences, FiniteSets, TLC

VARIABLES input, pc, result, stack, gdoc, bad, broken, ntok, text, prev, glang, toks, gaps

vars == <<input, pc, result, stack, gdoc, bad, broken, ntok, text, prev, glang, toks, gaps>>

(***************************************************************************)
(* Characters                                                              *)
(***************************************************************************)
Quote == "\""

Whitespace == {" ", "\t", "\n"}

Digits == {"0", "1", "2", "3", "4", "5", "6", "7", "8", "9"}

Letters == {"a", "b", "c", "d", "e", "f", "g", "h", "i", "j", "k", "l", "m",
            "n", "o", "p", "q", "r", "s", "t", "u", "v", "w", "x", "y", "z",
            "A", "B", "C", "D", "E", "F", "G", "H", "I", "J", "K", "L", "M",
            "N", "O", "P", "Q", "R", "S", "T", "U", "V", "W", "X", "Y", "Z"}

IdentStart == Letters \cup {"_"}

IdentContinue == IdentStart \cup Digits

Max(a, b) == IF a >= b THEN a ELSE b

(***************************************************************************)
(* AST types                                                               *)
(***************************************************************************)
ValueString(t) == [tag |-> "String", text |-> t]

ValueNumber(n) == [tag |-> "Number", num |-> n]

ValuePercentage(n) == [tag |-> "Percentage", num |-> n]

ValueIdentifier(t) == [tag |-> "Identifier", text |-> t]

ValueDString(t) == [tag |-> "DString", text |-> t]

Property(n, v) == [name |-> n, value |-> v]

Element(k, n, ps, cs) == [kind |-> k, name |-> n, properties |-> ps, children |-> cs]

None == [tag |-> "None"]

Some(u) == [tag |-> "Some", v |-> u]

Language(n, v, u) == [name |-> n, value |-> v, url |-> u]

Document(l, r) == [language |-> l, root |-> r]

Left(l) == [tag |-> "Left", l |-> l]

Right(r) == [tag |-> "Right", r |-> r]

(***************************************************************************)
(* Parse results                                                           *)
(***************************************************************************)
Ok(p, v, f) == [st |-> "ok", pos |-> p, val |-> v, far |-> f, depth |-> 0]

Err(p, f) == [st |-> "err", pos |-> p, val |-> <<>>, far |-> f, depth |-> 0]

\* r, a result obtained after h, keeps the failures and the depth seen by h.
After(h, r) == [r EXCEPT !.far = Max(@, h.far), !.depth = Max(@, h.depth)]

\* The end of the longest run of characters of S that starts at i.
RECURSIVE RunEnd(_, _, _)
RunEnd(S, s, i) == IF i <= Len(s) /\ s[i] \in S THEN RunEnd(S, s, i + 1) ELSE i

\* none_of(c).repeated(): the end of the longest run without c that starts at i
RECURSIVE NoneOfEnd(_, _, _)
NoneOfEnd(c, s, i) == IF i <= Len(s) /\ s[i] # c THEN NoneOfEnd(c, s, i + 1) ELSE i

\* e, evaluated once, and handed to F
Bind(e, F(_)) == CHOOSE y \in {F(x) : x \in {e}} : TRUE

\* .padded() of a result r: the whitespace after it is skipped as well
padded_end(s, r) ==
    Bind(r, LAMBDA x : IF x.st = "ok" THEN [x EXCEPT !.pos = RunEnd(Whitespace, s, @)] ELSE x)

\* just(c)
just(c, s, i) == IF i <= Len(s) /\ s[i] = c THEN Ok(i + 1, c, 0) ELSE Err(i, i)

\* just(c).padded()
just_padded(c, s, i) == padded_end(s, just(c, s, RunEnd(Whitespace, s, i)))

\* text::ident(): an identifier start, then identifier characters, as a slice
text_ident(s, i) ==
    IF i <= Len(s) /\ s[i] \in IdentStart
    THEN Bind(RunEnd(IdentContinue, s, i + 1), LAMBDA j : Ok(j, SubSeq(s, i, j - 1), j))
    ELSE Err(i, i)

\* let ident = text::ident().padded()
ident(s, i) == padded_end(s, text_ident(s, RunEnd(Whitespace, s, i)))

(***************************************************************************)
(* Directive                                                               *)
(***************************************************************************)
\* @language ratatui
simple_directive(s, i) ==
    Bind(just("@", s, i), LAMBDA a : IF a.st # "ok" THEN a ELSE
    Bind(After(a, ident(s, a.pos)), LAMBDA n : IF n.st # "ok" THEN n ELSE
    Bind(After(n, ident(s, n.pos)), LAMBDA v : IF v.st # "ok" THEN v ELSE
         [v EXCEPT !.val = Language(n.val, v.val, None)])))

\* '"', any run of characters but '"', '"'
url_string(s, i) ==
    Bind(just(Quote, s, i), LAMBDA q : IF q.st # "ok" THEN q ELSE
    Bind(NoneOfEnd(Quote, s, q.pos), LAMBDA j :
    Bind(After(Err(i, j), just(Quote, s, j)), LAMBDA c : IF c.st # "ok" THEN c ELSE
         [c EXCEPT !.val = SubSeq(s, q.pos, j - 1)])))

\* @language my_language("https://...")
directive_with_url(s, i) ==
    Bind(just("@", s, i), LAMBDA a : IF a.st # "ok" THEN a ELSE
    Bind(After(a, ident(s, a.pos)), LAMBDA n : IF n.st # "ok" THEN n ELSE
    Bind(After(n, ident(s, n.pos)), LAMBDA v : IF v.st # "ok" THEN v ELSE
    Bind(After(v, just("(", s, v.pos)), LAMBDA o : IF o.st # "ok" THEN o ELSE
    Bind(After(o, url_string(s, o.pos)), LAMBDA u : IF u.st # "ok" THEN u ELSE
    Bind(After(u, just(")", s, u.pos)), LAMBDA c : IF c.st # "ok" THEN c ELSE
         [c EXCEPT !.val = Language(n.val, v.val, Some(u.val))]))))))

\* simple_directive.or(directive_with_url).padded(): the simple form first
directive_simple_first(s, i) ==
    Bind(RunEnd(Whitespace, s, i), LAMBDA j :
    Bind(simple_directive(s, j), LAMBDA w :
         padded_end(s, IF w.st = "err" THEN After(w, directive_with_url(s, j)) ELSE w)))

\* directive_with_url.or(simple_directive).padded()
directive(s, i) ==
    Bind(RunEnd(Whitespace, s, i), LAMBDA j :
    Bind(directive_with_url(s, j), LAMBDA w :
         padded_end(s, IF w.st = "err" THEN After(w, simple_directive(s, j)) ELSE w)))

(***************************************************************************)
(* Values                                                                  *)
(***************************************************************************)
\* "..."
string(s, i) ==
    Bind(just(Quote, s, i), LAMBDA q : IF q.st # "ok" THEN q ELSE
    Bind(NoneOfEnd(Quote, s, q.pos), LAMBDA j :
    Bind(After(Err(i, j), just(Quote, s, j)), LAMBDA c : IF c.st # "ok" THEN c ELSE
         [c EXCEPT !.val = ValueString(SubSeq(s, q.pos, j - 1))])))

\* d"...": the two-character prefix, the body, '"'
dstring(s, i) ==
    Bind(just("d", s, i), LAMBDA d : IF d.st # "ok" THEN d ELSE
    Bind(just(Quote, s, d.pos), LAMBDA q : IF q.st # "ok" THEN q ELSE
    Bind(NoneOfEnd(Quote, s, q.pos), LAMBDA j :
    Bind(After(Err(i, j), just(Quote, s, j)), LAMBDA c : IF c.st # "ok" THEN c ELSE
         [c EXCEPT !.val = ValueDString(SubSeq(s, q.pos, j - 1))]))))

\* text::int(10): a non-zero digit and a run of digits, or a single 0
text_int(s, i) ==
    IF i <= Len(s) /\ s[i] \in Digits \ {"0"}
    THEN Bind(RunEnd(Digits, s, i + 1), LAMBDA j : Ok(j, SubSeq(s, i, j - 1), j))
    ELSE IF i <= Len(s) /\ s[i] = "0"
         THEN Ok(i + 1, <<"0">>, i)
         ELSE Err(i, i)

\* text::digits(10) without at_least(1): a run of digits, possibly empty
text_digits_or_none(s, i) ==
    Bind(RunEnd(Digits, s, i), LAMBDA j : Ok(j, SubSeq(s, i, j - 1), j))

\* text::digits(10): one or more digits
text_digits(s, i) ==
    IF i <= Len(s) /\ s[i] \in Digits
    THEN Bind(RunEnd(Digits, s, i + 1), LAMBDA j : Ok(j, SubSeq(s, i, j - 1), j))
    ELSE Err(i, i)

\* let frac = just('.').then(text::digits(10)).to_slice()
frac(s, i) ==
    Bind(just(".", s, i), LAMBDA p : IF p.st # "ok" THEN p ELSE
    Bind(After(p, text_digits(s, p.pos)), LAMBDA d : IF d.st # "ok" THEN d ELSE
         [d EXCEPT !.val = SubSeq(s, i, d.pos - 1)]))

\* text::int(10).then(frac.or_not()).to_slice(): the numeric text
num_slice(s, i) ==
    Bind(text_int(s, i), LAMBDA n : IF n.st # "ok" THEN n ELSE
    Bind(After(n, frac(s, n.pos)), LAMBDA f :
    Bind(IF f.st = "ok" THEN f.pos ELSE n.pos, LAMBDA e :
         [f EXCEPT !.st = "ok", !.pos = e, !.val = SubSeq(s, i, e - 1)])))

\* str::trim_end_matches(c)
RECURSIVE trim_end_matches(_, _)
trim_end_matches(t, c) ==
    IF Len(t) > 0 /\ t[Len(t)] = c
    THEN trim_end_matches(SubSeq(t, 1, Len(t) - 1), c)
    ELSE t

\* What str::parse::<f64>() accepts of a text over the alphabet: digits with at
\* most one '.', at least one digit ("5", "5.0", "5." and ".5", not "" or ".").
F64ParseOk(t) ==
    /\ \A k \in 1..Len(t) : t[k] \in Digits \cup {"."}
    /\ Cardinality({k \in 1..Len(t) : t[k] = "."}) <= 1
    /\ \E k \in 1..Len(t) : t[k] \in Digits

DigitValue(c) ==
    CASE c = "0" -> 0 [] c = "1" -> 1 [] c = "2" -> 2 [] c = "3" -> 3 [] c = "4" -> 4
      [] c = "5" -> 5 [] c = "6" -> 6 [] c = "7" -> 7 [] c = "8" -> 8 [] c = "9" -> 9

RECURSIVE DecimalValue(_)
DecimalValue(t) ==
    IF Len(t) = 0 THEN 0
    ELSE 10 * DecimalValue(SubSeq(t, 1, Len(t) - 1)) + DigitValue(t[Len(t)])

RECURSIVE Pow10(_)
Pow10(k) == IF k = 0 THEN 1 ELSE 10 * Pow10(k - 1)

RECURSIVE Gcd(_, _)
Gcd(a, b) == IF b = 0 THEN a ELSE Gcd(b, a % b)

IsNotDot(c) == c # "."

\* The value str::parse::<f64>() gives a short decimal text: the number it
\* denotes, as the fraction <<numerator, denominator>> in lowest terms (two
\* texts give the same double exactly when they denote the same number).
F64Parse(t) ==
    Bind({k \in 1..Len(t) : t[k] = "."}, LAMBDA dot :
    Bind(DecimalValue(SelectSeq(t, IsNotDot)), LAMBDA n :
    Bind(Pow10(IF dot = {} THEN 0 ELSE Len(t) - (CHOOSE x \in dot : TRUE)), LAMBDA d :
    Bind(Gcd(n, d), LAMBDA g : <<n \div g, d \div g>>))))

\* number_map that does not look at the '%': always a Number
number_map_no_percentage(r, num_text, pct) ==
    Bind(trim_end_matches(num_text, "%"), LAMBDA num_str :
         IF ~F64ParseOk(num_str) THEN [r EXCEPT !.st = "panic", !.val = <<>>]
         ELSE [r EXCEPT !.st = "ok", !.val = ValueNumber(F64Parse(num_str))])

\* The map of number: the text without trailing '%', converted (unwrap
\* panics when the conversion fails), as a Percentage when '%' was there
number_map(r, num_text, pct) ==
    Bind(trim_end_matches(num_text, "%"), LAMBDA num_str :
         IF ~F64ParseOk(num_str) THEN [r EXCEPT !.st = "panic", !.val = <<>>]
         ELSE IF pct THEN [r EXCEPT !.st = "ok", !.val = ValuePercentage(F64Parse(num_str))]
         ELSE [r EXCEPT !.st = "ok", !.val = ValueNumber(F64Parse(num_str))])

\* Numbers with optional percentage
number(s, i) ==
    Bind(num_slice(s, i), LAMBDA n : IF n.st # "ok" THEN n ELSE
    Bind(After(n, just("%", s, n.pos)), LAMBDA p :
         number_map([p EXCEPT !.pos = IF p.st = "ok" THEN @ ELSE n.pos], n.val, p.st = "ok")))

\* hyphen_parts without s.push('-'): the parts are joined with nothing between
RECURSIVE hyphen_parts_no_hyphen(_, _, _)
hyphen_parts_no_hyphen(s, i, acc) ==
    Bind(just("-", s, i), LAMBDA h :
    Bind(IF h.st = "ok" THEN After(h, text_ident(s, h.pos)) ELSE h, LAMBDA t :
         IF t.st = "ok"
         THEN After(t, hyphen_parts_no_hyphen(s, t.pos, acc \o t.val))
         ELSE [t EXCEPT !.st = "ok", !.pos = i, !.val = acc]))

\* just('-').ignore_then(text::ident()).repeated().collect(), pushed onto acc
\* as the map of ident_value does: '-' and then the part
RECURSIVE hyphen_parts(_, _, _)
hyphen_parts(s, i, acc) ==
    Bind(just("-", s, i), LAMBDA h :
    Bind(IF h.st = "ok" THEN After(h, text_ident(s, h.pos)) ELSE h, LAMBDA t :
         IF t.st = "ok"
         THEN After(t, hyphen_parts(s, t.pos, acc \o <<"-">> \o t.val))
         ELSE [t EXCEPT !.st = "ok", !.pos = i, !.val = acc]))

\* Identifier values (like: left-to-right, free-form, true)
ident_value(s, i) ==
    Bind(text_ident(s, i), LAMBDA f : IF f.st # "ok" THEN f ELSE
    Bind(After(f, hyphen_parts(s, f.pos, f.val)), LAMBDA r : IF r.st # "ok" THEN r ELSE
         [r EXCEPT !.val = ValueIdentifier(r.val)]))

\* choice((ident_value, dstring, string, number)): the identifier tried first
choice_identifier_first(s, i) ==
    Bind(ident_value(s, i), LAMBDA a : IF a.st # "err" THEN a ELSE
    Bind(After(a, dstring(s, i)), LAMBDA b : IF b.st # "err" THEN b ELSE
    Bind(After(b, string(s, i)), LAMBDA c : IF c.st # "err" THEN c ELSE
         After(c, number(s, i)))))

\* choice((dstring, string, number, ident_value))
choice(s, i) ==
    Bind(dstring(s, i), LAMBDA a : IF a.st # "err" THEN a ELSE
    Bind(After(a, string(s, i)), LAMBDA b : IF b.st # "err" THEN b ELSE
    Bind(After(b, number(s, i)), LAMBDA c : IF c.st # "err" THEN c ELSE
         After(c, ident_value(s, i)))))

\* let value = choice((dstring, string, number, ident_value)).padded()
value(s, i) == padded_end(s, choice(s, RunEnd(Whitespace, s, i)))

\* property with value.or_not(): a missing value is an empty string
property_value_optional(s, i) ==
    Bind(ident(s, i), LAMBDA n : IF n.st # "ok" THEN n ELSE
    Bind(After(n, just_padded("=", s, n.pos)), LAMBDA e : IF e.st # "ok" THEN e ELSE
    Bind(After(e, value(s, e.pos)), LAMBDA v :
         IF v.st = "err"
         THEN [v EXCEPT !.st = "ok", !.pos = e.pos, !.val = Property(n.val, ValueString(<<>>))]
         ELSE IF v.st # "ok" THEN v
         ELSE [v EXCEPT !.val = Property(n.val, v.val)])))

\* Property: name = value
property(s, i) ==
    Bind(ident(s, i), LAMBDA n : IF n.st # "ok" THEN n ELSE
    Bind(After(n, just_padded("=", s, n.pos)), LAMBDA e : IF e.st # "ok" THEN e ELSE
    Bind(After(e, value(s, e.pos)), LAMBDA v : IF v.st # "ok" THEN v ELSE
         [v EXCEPT !.val = Property(n.val, v.val)])))

(***************************************************************************)
(* Elements                                                                *)
(***************************************************************************)
IsLeft(e) == e.tag = "Left"

IsRight(e) == e.tag = "Right"

\* partition with the predicate negated: each item goes to the other list
partition_negated(items) == <<SelectSeq(items, IsRight), SelectSeq(items, IsLeft)>>

\* items.into_iter().partition(|e| matches!(e, Either::Left(_)))
partition(items) == <<SelectSeq(items, IsLeft), SelectSeq(items, IsRight)>>

\* props.into_iter().filter_map(|e| e.left()).collect()
filter_map_left(items) ==
    Bind(SelectSeq(items, IsLeft), LAMBDA ls : [k \in 1..Len(ls) |-> ls[k].l])

\* children.into_iter().filter_map(|e| e.right()).collect()
filter_map_right(items) ==
    Bind(SelectSeq(items, IsRight), LAMBDA rs : [k \in 1..Len(rs) |-> rs[k].r])

\* The map of block: the Element of kind, name and the accumulated items
make_element(kind, name, items) ==
    Bind(partition(items), LAMBDA pc2 :
         Element(kind, name, filter_map_left(pc2[1]), filter_map_right(pc2[2])))

RECURSIVE element(_, _)
RECURSIVE repeated_items(_, _, _, _)

\* property.map(Either::Left).or(element.map(Either::Right))
property_or_element(s, i) ==
    Bind(property(s, i), LAMBDA p :
         IF p.st = "ok" THEN [p EXCEPT !.val = Left(p.val)]
         ELSE IF p.st # "err" THEN p
         ELSE Bind(After(p, element(s, i)), LAMBDA e :
                   IF e.st = "ok" THEN [e EXCEPT !.val = Right(e.val)] ELSE e))

\* item with .or_not(): no item is an item too
item_optional(s, i) ==
    Bind(RunEnd(Whitespace, s, i), LAMBDA j :
    Bind(property_or_element(s, j), LAMBDA r :
         IF r.st = "err"
         THEN [r EXCEPT !.st = "ok", !.pos = i, !.val = Left(Property(<<>>, ValueString(<<>>)))]
         ELSE padded_end(s, r)))

\* property.map(Either::Left).or(element.map(Either::Right)).padded()
item(s, i) == padded_end(s, property_or_element(s, RunEnd(Whitespace, s, i)))

\* .repeated().collect::<Vec<_>>(): items until one fails; the cursor goes back
\* to where the failed item started.  An item that succeeds without moving the
\* cursor would never end the repetition ("loop").
repeated_items(s, i, acc, h) ==
    Bind(After(h, item(s, i)), LAMBDA r :
         IF r.st = "ok"
         THEN IF r.pos = i
              THEN [r EXCEPT !.st = "loop", !.val = <<>>]
              ELSE repeated_items(s, r.pos, Append(acc, r.val), r)
         ELSE IF r.st = "err"
              THEN [r EXCEPT !.st = "ok", !.pos = i, !.val = acc]
              ELSE r)

properties_and_children(s, i) == repeated_items(s, i, <<>>, Ok(i, <<>>, 0))

\* block closed by either closing delimiter
block_any_close(open, close, s, i) ==
    Bind(just("@", s, i), LAMBDA a : IF a.st # "ok" THEN a ELSE
    Bind(After(a, ident(s, a.pos)), LAMBDA k : IF k.st # "ok" THEN k ELSE
    Bind(After(k, ident(s, k.pos)), LAMBDA n : IF n.st # "ok" THEN n ELSE
    Bind(After(n, just_padded(open, s, n.pos)), LAMBDA o : IF o.st # "ok" THEN o ELSE
    Bind(After(o, properties_and_children(s, o.pos)), LAMBDA b : IF b.st # "ok" THEN b ELSE
    Bind(After(b, just_padded("}", s, b.pos)), LAMBDA c1 :
    Bind(IF c1.st = "err" THEN After(c1, just_padded(")", s, b.pos)) ELSE c1, LAMBDA c :
         IF c.st # "ok" THEN c
         ELSE [c EXCEPT !.val = make_element(k.val, n.val, b.val)])))))))

\* @Kind name { ... } or @Kind name ( ... )
block(open, close, s, i) ==
    Bind(just("@", s, i), LAMBDA a : IF a.st # "ok" THEN a ELSE
    Bind(After(a, ident(s, a.pos)), LAMBDA k : IF k.st # "ok" THEN k ELSE
    Bind(After(k, ident(s, k.pos)), LAMBDA n : IF n.st # "ok" THEN n ELSE
    Bind(After(n, just_padded(open, s, n.pos)), LAMBDA o : IF o.st # "ok" THEN o ELSE
    Bind(After(o, properties_and_children(s, o.pos)), LAMBDA b : IF b.st # "ok" THEN b ELSE
    Bind(After(b, just_padded(close, s, b.pos)), LAMBDA c : IF c.st # "ok" THEN c ELSE
         [c EXCEPT !.val = make_element(k.val, n.val, b.val)]))))))

\* block('{', '}').or(block('(', ')')); one more level of the recursion
element(s, i) ==
    Bind(block("{", "}", s, i), LAMBDA a :
    Bind(IF a.st = "err" THEN After(a, block("(", ")", s, i)) ELSE a, LAMBDA r :
         [r EXCEPT !.depth = @ + 1]))

\* directive.then(element).map(|(language, root)| Document { language, root })
parser(s) ==
    Bind(directive(s, 1), LAMBDA d : IF d.st # "ok" THEN d ELSE
    Bind(After(d, element(s, d.pos)), LAMBDA e : IF e.st # "ok" THEN e ELSE
         [e EXCEPT !.val = Document(d.val, e.val)]))

(***************************************************************************)
(* Documents under construction.  A source text is written token by token; *)
(* beside it the writer keeps what it wrote: the stack of the elements it  *)
(* has opened, each with its items in source order (stack), the root once  *)
(* it is closed (gdoc, empty before), the position of the first closing    *)
(* delimiter that does not match its opening one (bad, 0: none), and       *)
(* whether it wrote an item that is no property and no element (broken).   *)
(***************************************************************************)
MaxItems == 4

MaxDepth == 3

NoLanguage == Language(<<>>, <<>>, None)

NoResult == [st |-> "none", pos |-> 0, val |-> <<>>, far |-> 0, depth |-> 0]

SimpleDirectiveText == <<"@", "l", "a", "n", "g", "u", "a", "g", "e", " ",
                         "r", "a", "t", "a", "t", "u", "i", "\n">>

SimpleLanguage == Language(<<"l", "a", "n", "g", "u", "a", "g", "e">>,
                           <<"r", "a", "t", "a", "t", "u", "i">>, None)

DigitChar(k) == CHOOSE c \in Digits : DigitValue(c) = k

\* The name of the k-th item of a body: p1, p2, ... or e1, e2, ...
ItemName(letter, k) == <<letter, DigitChar(k)>>

\* The values the writer gives a property, with the Value each denotes
PropValues ==
    { [text |-> <<"7">>, value |-> ValueNumber(<<7, 1>>)],
      [text |-> <<Quote, "x", Quote>>, value |-> ValueString(<<"x">>)] }

Closer(open) == IF open = "{" THEN "}" ELSE ")"

\* The items that fail to parse: a property without a value, an element
\* without a body
BrokenItems(k) ==
    { <<"t", "i", "t", "l", "e", " ", "=", " ">>,
      <<"@", "K", " ">> \o ItemName("e", k) \o <<" ">> }

Writing == pc \in {"directive", "root", "body", "closed",
                 "d_at", "d_name", "d_value", "d_url", "d_root"}

Sound == bad = 0 /\ ~broken

Init ==
    /\ input = <<>>
    /\ pc = "directive"
    /\ result = NoResult
    /\ stack = <<>>
    /\ gdoc = <<>>
    /\ bad = 0
    /\ broken = FALSE
    /\ ntok = 0
    /\ text = <<>>
    /\ prev = NoResult
    /\ glang = NoLanguage
    /\ toks = <<>>
    /\ gaps = <<>>

\* Write the directive
GenDirective ==
    /\ pc = "directive"
    /\ input' = input \o SimpleDirectiveText
    /\ pc' = "root"
    /\ UNCHANGED <<glang, toks, gaps, result, stack, gdoc, bad, broken, ntok, text, prev>>

\* Open an element: the root, or a child of the innermost open element
GenOpen(open) ==
    /\ pc \in {"root", "body"}
    /\ Sound
    /\ ntok < MaxItems
    /\ Len(stack) < MaxDepth
    /\ LET k == IF stack = <<>> THEN 1 ELSE Len(stack[Len(stack)].items) + 1
           name == ItemName("e", k)
       IN  /\ input' = input \o <<"@", "K", " ">> \o name \o <<" ", open, "\n">>
           /\ stack' = Append(stack, [kind |-> <<"K">>, name |-> name,
                                      open |-> open, items |-> <<>>])
    /\ pc' = "body"
    /\ ntok' = ntok + 1
    /\ UNCHANGED <<glang, toks, gaps, result, gdoc, bad, broken, text, prev>>

\* Write a property into the innermost open element
GenProperty(v) ==
    /\ pc = "body"
    /\ Sound
    /\ ntok < MaxItems
    /\ LET top == stack[Len(stack)]
           name == ItemName("p", Len(top.items) + 1)
           it == [tag |-> "P", prop |-> Property(name, v.value)]
       IN  /\ input' = input \o name \o <<" ", "=", " ">> \o v.text \o <<" ">>
           /\ stack' = [stack EXCEPT ![Len(stack)].items = Append(@, it)]
    /\ ntok' = ntok + 1
    /\ UNCHANGED <<glang, toks, gaps, pc, result, gdoc, bad, broken, text, prev>>

\* Write an item that does not parse into the innermost open element
GenBroken ==
    /\ pc = "body"
    /\ Sound
    /\ ntok < MaxItems
    /\ \E b \in BrokenItems(Len(stack[Len(stack)].items) + 1) : input' = input \o b
    /\ broken' = TRUE
    /\ ntok' = ntok + 1
    /\ UNCHANGED <<glang, toks, gaps, pc, result, stack, gdoc, bad, text, prev>>

\* Close the innermost open element with c, its own closing delimiter or not
GenClose(c) ==
    /\ pc = "body"
    /\ LET top == stack[Len(stack)]
           el == [kind |-> top.kind, name |-> top.name, items |-> top.items]
           rest == SubSeq(stack, 1, Len(stack) - 1)
       IN  /\ input' = input \o <<c, " ">>
           /\ bad' = IF bad = 0 /\ c # Closer(top.open) THEN Len(input) + 1 ELSE bad
           /\ IF rest = <<>>
              THEN /\ stack' = rest
                   /\ gdoc' = <<el>>
                   /\ pc' = "closed"
              ELSE /\ stack' = [rest EXCEPT ![Len(rest)].items =
                                    Append(@, [tag |-> "E", el |-> el])]
                   /\ UNCHANGED <<gdoc, pc>>
    /\ UNCHANGED <<glang, toks, gaps, result, broken, ntok, text, prev>>

\* parser().parse(input), of the text written so far
Parse ==
    /\ Writing
    /\ result' = parser(input)
    /\ pc' = "parsed"
    /\ UNCHANGED <<glang, toks, gaps, input, stack, gdoc, bad, broken, ntok, text, prev>>

Next ==
    \/ GenDirective
    \/ \E open \in {"{", "("} : GenOpen(open)
    \/ \E v \in PropValues : GenProperty(v)
    \/ GenBroken
    \/ \E c \in {"}", ")"} : GenClose(c)
    \/ Parse

Spec == Init /\ [][Next]_vars

(***************************************************************************)
(* Properties of the element grammar                                       *)
(***************************************************************************)
IsP(x) == x.tag = "P"

IsE(x) == x.tag = "E"

\* The properties the writer put into the element g, in source order
WrittenProperties(g) ==
    Bind(SelectSeq(g.items, IsP), LAMBDA ps : [k \in 1..Len(ps) |-> ps[k].prop])

\* The child elements the writer put into the element g, in source order
WrittenChildren(g) ==
    Bind(SelectSeq(g.items, IsE), LAMBDA es : [k \in 1..Len(es) |-> es[k].el])

\* The parsed Element el holds what was written as g: its properties in the
\* order written, its children in the order written, as many as the items of
\* the body, and so for every child
RECURSIVE Partitioned(_, _)
Partitioned(el, g) ==
    /\ el.kind = g.kind
    /\ el.name = g.name
    /\ el.properties = WrittenProperties(g)
    /\ Len(el.children) = Len(WrittenChildren(g))
    /\ Len(el.properties) + Len(el.children) = Len(g.items)
    /\ \A k \in 1..Len(el.children) : Partitioned(el.children[k], WrittenChildren(g)[k])

RootClosed == Len(gdoc) = 1

\* C1: a document whose elements are all well formed parses, and every Element
\* of the result, at every depth, holds exactly the N properties of its body in
\* source order and exactly the M child elements of its body in source order,
\* N + M being the number of items of the body.
PartitionProperty ==
    (pc = "parsed" /\ RootClosed /\ Sound) =>
        /\ result.st = "ok"
        /\ result.val.language = SimpleLanguage
        /\ Partitioned(result.val.root, gdoc[1])

\* A parsed root whose body is a property, a child element, a property, and a
\* parsed root with two children
PartitionWitness ==
    /\ pc = "parsed" /\ RootClosed /\ Sound
    /\ result.st = "ok"
    /\ Len(gdoc[1].items) = 3
    /\ gdoc[1].items[1].tag = "P" /\ gdoc[1].items[2].tag = "E" /\ gdoc[1].items[3].tag = "P"
    /\ Len(result.val.root.properties) = 2
    /\ Len(result.val.root.children) = 1

\* C2: an element closed by the delimiter of the other pair is rejected, in a
\* document that is otherwise well formed, and the error is at the position of
\* that closing delimiter; so every element of a parsed document was closed by
\* the delimiter matching the one that opened it.
DelimiterSymmetry ==
    (pc = "parsed" /\ bad # 0 /\ ~broken) =>
        /\ result.st = "err"
        /\ result.far = bad

\* A complete document, every element closed, one of them by the wrong delimiter
DelimiterWitness ==
    /\ pc = "parsed" /\ RootClosed /\ bad # 0 /\ ~broken
    /\ result.st = "err"
    /\ input[bad] \in {"}", ")"}
    /\ Len(gdoc[1].items) >= 1

\* C7: a document with an item that does not parse (a property without a value,
\* an element without a body), or whose text ends before an open element is
\* closed, does not parse: no Document is returned.
FirstFailureWins ==
    (pc = "parsed" /\ (broken \/ Len(stack) > 0)) => result.st = "err"

\* A complete document in which a nested element holds, after a property, an
\* item that does not parse
FirstFailureWitness ==
    /\ pc = "parsed" /\ RootClosed /\ broken /\ bad = 0
    /\ result.st = "err"
    /\ Len(gdoc[1].items) = 1
    /\ gdoc[1].items[1].tag = "E"
    /\ Len(gdoc[1].items[1].el.items) = 1

NumAt(s) == Cardinality({k \in 1..Len(s) : s[k] = "@"})

\* C10: the parse ends with a Document or an error (it neither panics nor
\* repeats an item that consumes nothing); an item accepted at any position of
\* the text consumes a character that is not whitespace; the element grammar is
\* never nested deeper than the number of '@' in the text.
Progress ==
    pc = "parsed" =>
        /\ result.st \in {"ok", "err"}
        /\ result.depth <= NumAt(input)
        /\ \A i \in 1..(Len(input) + 1) : \A r \in {item(input, i)} :
               r.st = "ok" =>
                   /\ r.pos > i
                   /\ \E k \in i..(r.pos - 1) : input[k] \notin Whitespace

\* A parsed document of three nested elements: the element grammar is entered
\* as often as the text has '@'
ProgressWitness ==
    /\ pc = "parsed"
    /\ result.st = "ok"
    /\ result.depth = NumAt(input)
    /\ NumAt(input) = 4

(***************************************************************************)
(* Values under construction.  The text of one property value is typed     *)
(* character by character (text); the document parsed is a root element    *)
(* whose only item is the property p1 with that text as its value.         *)
(***************************************************************************)
MaxValueLen == 5

ValueChars == {"d", "a", Quote, "0", "5", ".", "%", "-", " "}

ValuePrefix == SimpleDirectiveText \o <<"@", "K", " ", "e", "1", " ", "{", "\n", "p", "1", "=">>

ValueSuffix == <<"}">>

InitValue ==
    /\ input = <<>>
    /\ pc = "value"
    /\ result = NoResult
    /\ stack = <<>>
    /\ gdoc = <<>>
    /\ bad = 0
    /\ broken = FALSE
    /\ ntok = 0
    /\ text = <<>>
    /\ prev = NoResult
    /\ glang = NoLanguage
    /\ toks = <<>>
    /\ gaps = <<>>

\* Type one more character of the value
TypeChar(c) ==
    /\ pc = "value"
    /\ Len(text) < MaxValueLen
    /\ text' = Append(text, c)
    /\ UNCHANGED <<glang, toks, gaps, input, pc, result, stack, gdoc, bad, broken, ntok, prev>>

\* parser().parse(input), of the document with the value typed so far
ParseValue ==
    /\ pc = "value"
    /\ input' = ValuePrefix \o text \o ValueSuffix
    /\ result' = parser(input')
    /\ pc' = "parsed"
    /\ UNCHANGED <<glang, toks, gaps, stack, gdoc, bad, broken, ntok, text, prev>>

NextValue ==
    \/ \E c \in ValueChars : TypeChar(c)
    \/ ParseValue

SpecValue == InitValue /\ [][NextValue]_vars

\* The document parsed, and its root holds the one property p1 with value v
ValueResult(v) ==
    /\ result.st = "ok"
    /\ result.val.root.properties = <<Property(<<"p", "1">>, v)>>
    /\ result.val.root.children = <<>>

EndsWith(t, c) == Len(t) > 0 /\ t[Len(t)] = c

ButLast(t) == SubSeq(t, 1, Len(t) - 1)

\* digits, or digits '.' digits
IsNumeral(t) ==
    /\ Len(t) > 0
    /\ \A k \in 1..Len(t) : t[k] \in Digits \cup {"."}
    /\ Cardinality({k \in 1..Len(t) : t[k] = "."}) <= 1
    /\ t[1] # "."
    /\ t[Len(t)] # "."

\* The integer part is a single 0 or starts with another digit
NoLeadingZero(t) == Len(t) = 1 \/ t[1] # "0" \/ t[2] = "."

\* The value text is the numeral n, or n and '%': the parsed value is
\* Number(v), or Percentage(v), v being the number n denotes
NumeralParsed(n) ==
    IF EndsWith(text, "%")
    THEN ValueResult(ValuePercentage(F64Parse(n)))
    ELSE ValueResult(ValueNumber(F64Parse(n)))

TypedNumeral == IF EndsWith(text, "%") THEN ButLast(text) ELSE text

\* C3 as amended: a numeral N without leading zeros (its integer part is 0 or
\* starts with a non-zero digit) yields Number(v) as a property value, and N
\* immediately followed by '%' yields Percentage(v) with the same v.
NumberOrPercentage ==
    (pc = "parsed" /\ IsNumeral(TypedNumeral) /\ NoLeadingZero(TypedNumeral)) =>
        NumeralParsed(TypedNumeral)

\* 0.5% is the Percentage of one half
NumberOrPercentageWitness ==
    /\ pc = "parsed"
    /\ text = <<"0", ".", "5", "%">>
    /\ ValueResult(ValuePercentage(<<1, 2>>))

\* C3 as stated: every numeral N, of the form digits or digits '.' digits,
\* yields Number(v), and N immediately followed by '%' yields Percentage(v).
NumberOrPercentageAnyNumeral ==
    (pc = "parsed" /\ IsNumeral(TypedNumeral)) => NumeralParsed(TypedNumeral)

\* identifier tokens joined by single hyphens
IsHyphenIdent(t) ==
    /\ Len(t) > 0
    /\ t[1] \in IdentStart
    /\ t[Len(t)] # "-"
    /\ \A k \in 1..Len(t) : t[k] \in IdentContinue \cup {"-"}
    /\ \A k \in 1..(Len(t) - 1) : t[k] = "-" => t[k + 1] \in IdentStart

\* C4: identifier tokens joined by single hyphens yield, as a property value,
\* the Identifier whose text is the source text, hyphens included.
HyphenatedIdentifier ==
    (pc = "parsed" /\ IsHyphenIdent(text)) => ValueResult(ValueIdentifier(text))

\* Three identifier tokens and two hyphens
HyphenatedIdentifierWitness ==
    /\ pc = "parsed"
    /\ text = <<"d", "-", "d", "-", "d">>
    /\ ValueResult(ValueIdentifier(text))

\* t is c, a body without '"', and '"', after the first `from - 1` characters
QuotedFrom(t, from) ==
    /\ Len(t) >= from + 1
    /\ t[from] = Quote
    /\ t[Len(t)] = Quote
    /\ \A k \in (from + 1)..(Len(t) - 1) : t[k] # Quote

\* C5: "t" yields the String t and d"t" the DString t, the body kept as
\* written; a value that starts with d" is never the Identifier d; an
\* identifier that starts with d is an Identifier.
StringLiterals ==
    pc = "parsed" =>
        /\ QuotedFrom(text, 1) => ValueResult(ValueString(SubSeq(text, 2, Len(text) - 1)))
        /\ (Len(text) > 0 /\ text[1] = "d" /\ QuotedFrom(text, 2)) =>
               ValueResult(ValueDString(SubSeq(text, 3, Len(text) - 1)))
        /\ (Len(text) > 1 /\ text[1] = "d" /\ text[2] = Quote /\ result.st = "ok") =>
               result.val.root.properties[1].value.tag = "DString"
        /\ (IsHyphenIdent(text) /\ text[1] = "d") => ValueResult(ValueIdentifier(text))

\* d" d" is the DString of a space and a d
StringLiteralsWitness ==
    /\ pc = "parsed"
    /\ text = <<"d", Quote, " ", "d", Quote>>
    /\ ValueResult(ValueDString(<<" ", "d">>))

\* C9: the parse never panics, and wherever the number grammar matches, the
\* text it hands to the conversion is digits or digits '.' digits: not empty,
\* not ending in '.', without '%' (trimming '%' removes nothing), and a text
\* the conversion accepts.
NumericConversionTotal ==
    pc = "parsed" =>
        /\ result.st # "panic"
        /\ \A i \in 1..Len(input) : \A n \in {num_slice(input, i)} :
               n.st = "ok" =>
                   /\ IsNumeral(n.val)
                   /\ trim_end_matches(n.val, "%") = n.val
                   /\ F64ParseOk(n.val)

\* The number grammar matched a text that a '.' follows, and one that a '%'
\* follows
NumericConversionWitness ==
    /\ pc = "parsed"
    /\ \E i \in 1..Len(input) : \E n \in {num_slice(input, i)} :
           n.st = "ok" /\ n.pos <= Len(input) /\ input[n.pos] = "."
    /\ \E i \in 1..Len(input) : \E n \in {num_slice(input, i)} :
           n.st = "ok" /\ n.pos <= Len(input) /\ input[n.pos] = "%"

(***************************************************************************)
(* Directives under construction.  The directive is written piece by       *)
(* piece, each piece present or left out: '@', the name, the value, the    *)
(* URL in parentheses (or one whose closing quote is missing); then a root *)
(* element.  glang is the Language written, gdoc the root element written  *)
(* (as the Element expected), broken whether a piece is missing.           *)
(***************************************************************************)
LanguageText == <<"l", "a", "n", "g", "u", "a", "g", "e">>

DirectiveNames == {<<>>, LanguageText}

DirectiveValues == {<<>>, <<"c", "u", "s", "t", "o", "m">>, <<"r", "a", "t", "a", "t", "u", "i">>}

SchemaUrl == <<"h", "t", "t", "p", "s", ":", "/", "/", "e", "x", "a", "m", "p", "l", "e",
               ".", "c", "o", "m", "/", "s", "c", "h", "e", "m", "a">>

\* No URL, a URL, a URL without its closing quote and parenthesis
UrlForms ==
    { [text |-> <<>>, url |-> None, closed |-> TRUE],
      [text |-> <<"(", Quote, "u", Quote, ")">>, url |-> Some(<<"u">>), closed |-> TRUE],
      [text |-> <<"(", Quote>> \o SchemaUrl \o <<Quote, ")">>, url |-> Some(SchemaUrl),
       closed |-> TRUE],
      [text |-> <<"(", Quote, "u">>, url |-> None, closed |-> FALSE] }

\* @Panel p ( ) and @K n { t = "x" }
Roots ==
    { [text |-> <<"@", "P", "a", "n", "e", "l", " ", "p", " ", "(", " ", ")">>,
       el |-> Element(<<"P", "a", "n", "e", "l">>, <<"p">>, <<>>, <<>>)],
      [text |-> <<"@", "K", " ", "n", " ", "{", " ", "t", " ", "=", " ", Quote, "x", Quote,
                  " ", "}">>,
       el |-> Element(<<"K">>, <<"n">>, <<Property(<<"t">>, ValueString(<<"x">>))>>, <<>>)] }

InitDirective ==
    /\ input = <<>>
    /\ pc = "d_at"
    /\ result = NoResult
    /\ stack = <<>>
    /\ gdoc = <<>>
    /\ bad = 0
    /\ broken = FALSE
    /\ ntok = 0
    /\ text = <<>>
    /\ prev = NoResult
    /\ glang = NoLanguage
    /\ toks = <<>>
    /\ gaps = <<>>

\* Write the '@' of the directive, or leave it out
GenAt(present) ==
    /\ pc = "d_at"
    /\ input' = IF present THEN input \o <<"@">> ELSE input
    /\ broken' = (broken \/ ~present)
    /\ pc' = "d_name"
    /\ UNCHANGED <<glang, toks, gaps, result, stack, gdoc, bad, ntok, text, prev>>

\* Write the name of the directive, or leave it out
GenName(n) ==
    /\ pc = "d_name"
    /\ input' = IF n = <<>> THEN input ELSE input \o n \o <<" ">>
    /\ glang' = [glang EXCEPT !.name = n]
    /\ broken' = (broken \/ n = <<>>)
    /\ pc' = "d_value"
    /\ UNCHANGED <<toks, gaps, result, stack, gdoc, bad, ntok, text, prev>>

\* Write the value of the directive, or leave it out
GenValue(v) ==
    /\ pc = "d_value"
    /\ input' = input \o v
    /\ glang' = [glang EXCEPT !.value = v]
    /\ broken' = (broken \/ v = <<>>)
    /\ pc' = "d_url"
    /\ UNCHANGED <<toks, gaps, result, stack, gdoc, bad, ntok, text, prev>>

\* Write the URL of the directive, closed or not, or none
GenUrl(u) ==
    /\ pc = "d_url"
    /\ input' = input \o u.text \o <<" ">>
    /\ glang' = [glang EXCEPT !.url = u.url]
    /\ broken' = (broken \/ ~u.closed)
    /\ pc' = "d_root"
    /\ UNCHANGED <<toks, gaps, result, stack, gdoc, bad, ntok, text, prev>>

\* Write the root element
GenRoot(r) ==
    /\ pc = "d_root"
    /\ input' = input \o r.text
    /\ gdoc' = <<r.el>>
    /\ pc' = "closed"
    /\ UNCHANGED <<glang, toks, gaps, result, stack, bad, broken, ntok, text, prev>>

NextDirective ==
    \/ \E present \in BOOLEAN : GenAt(present)
    \/ \E n \in DirectiveNames : GenName(n)
    \/ \E v \in DirectiveValues : GenValue(v)
    \/ \E u \in UrlForms : GenUrl(u)
    \/ \E r \in Roots : GenRoot(r)
    \/ Parse

SpecDirective == InitDirective /\ [][NextDirective]_vars

\* C6: a directive @name value("u") before a root element yields the Language
\* of name, value and Some(u), a directive @name value yields the Language of
\* name, value and None, each with the root element that follows; a directive
\* without its '@', without one of its identifiers or with a URL whose quote
\* is not closed makes the document fail.
DirectiveForms ==
    (pc = "parsed" /\ RootClosed) =>
        IF broken
        THEN result.st = "err"
        ELSE /\ result.st = "ok"
             /\ result.val.language = glang
             /\ result.val.root = gdoc[1]

\* @language custom("https://example.com/schema") @Panel p ( )
DirectiveFormsWitness ==
    /\ pc = "parsed" /\ RootClosed /\ ~broken
    /\ result.st = "ok"
    /\ result.val.language = Language(LanguageText, <<"c", "u", "s", "t", "o", "m">>,
                                      Some(SchemaUrl))
    /\ result.val.root = Element(<<"P", "a", "n", "e", "l">>, <<"p">>, <<>>, <<>>)

(***************************************************************************)
(* Whitespace between tokens.  A document is a sequence of tokens (toks)   *)
(* with a run of whitespace before each and after the last (gaps); a       *)
(* quoted string with its body is one token.  The text is parsed, then     *)
(* whitespace is inserted between two tokens and the text is parsed again; *)
(* prev is the result before the insertion.                                *)
(***************************************************************************)
MaxInserted == 2

\* @language custom("u") @Panel p ( )
UrlDocument ==
    << <<"@">>, <<"l", "a", "n", "g", "u", "a", "g", "e">>,
       <<"c", "u", "s", "t", "o", "m">>, <<"(">>, <<Quote, "u", Quote>>,
       <<")">>, <<"@">>, <<"P", "a", "n", "e", "l">>, <<"p">>, <<"(">>,
       <<")">> >>

\* @l r @F f { t = "a b" w = 50% k = a-b @K n ( ) }
FormDocument ==
    << <<"@">>, <<"l">>, <<"r">>, <<"@">>, <<"F">>, <<"f">>, <<"{">>,
       <<"t">>, <<"=">>, <<Quote, "a", " ", "b", Quote>>, <<"w">>, <<"=">>,
       <<"5", "0", "%">>, <<"k">>, <<"=">>, <<"a", "-", "b">>, <<"@">>,
       <<"K">>, <<"n">>, <<"(">>, <<")">>, <<"}">> >>

BaseDocuments == {UrlDocument, FormDocument}

\* Two tokens that would read as one when written without a space between
NeedsSpace(a, b) == a[Len(a)] \in IdentContinue /\ b[1] \in IdentContinue

\* The least whitespace: a space where two tokens would read as one
LeastGaps(ts) ==
    [k \in 1..(Len(ts) + 1) |->
        IF k > 1 /\ k <= Len(ts) /\ NeedsSpace(ts[k - 1], ts[k]) THEN <<" ">> ELSE <<>>]

\* The text of the first n tokens, each after its gap
RECURSIVE RenderTo(_, _, _)
RenderTo(ts, gs, n) ==
    IF n = 0 THEN <<>> ELSE RenderTo(ts, gs, n - 1) \o gs[n] \o ts[n]

Render(ts, gs) == RenderTo(ts, gs, Len(ts)) \o gs[Len(ts) + 1]

InitWhitespace ==
    /\ toks \in BaseDocuments
    /\ gaps = LeastGaps(toks)
    /\ input = Render(toks, gaps)
    /\ pc = "ws"
    /\ result = NoResult
    /\ stack = <<>>
    /\ gdoc = <<>>
    /\ bad = 0
    /\ broken = FALSE
    /\ ntok = 0
    /\ text = <<>>
    /\ prev = NoResult
    /\ glang = NoLanguage

\* parser().parse(input), of the document as first written
ParseBase ==
    /\ pc = "ws"
    /\ result' = parser(input)
    /\ pc' = "parsed"
    /\ UNCHANGED <<input, stack, gdoc, bad, broken, ntok, text, prev, glang, toks, gaps>>

\* Insert the whitespace character w at the end of gap k, and parse again
InsertWhitespace(k, w) ==
    /\ pc = "parsed"
    /\ ntok < MaxInserted
    /\ gaps' = [gaps EXCEPT ![k] = Append(@, w)]
    /\ input' = Render(toks, gaps')
    /\ prev' = result
    /\ result' = parser(input')
    /\ ntok' = ntok + 1
    /\ UNCHANGED <<pc, stack, gdoc, bad, broken, text, glang, toks>>

NextWhitespace ==
    \/ ParseBase
    \/ \E k \in 1..(Len(toks) + 1) : \E w \in Whitespace : InsertWhitespace(k, w)

SpecWhitespace == InitWhitespace /\ [][NextWhitespace]_vars

\* C8: whitespace inserted between two tokens of a document that parses, the
\* document still parses, to the same Document.
WhitespaceInsignificant ==
    prev.st = "ok" => (result.st = "ok" /\ result.val = prev.val)

====
